---- MODULE Spec2Model ----
(***************************************************************************)
(* Multi-tenant schema isolation and provisioning engine of the legal      *)
(* practice SaaS: the tenant registry, the schema provisioner              *)
(* (Database.ensureTenantSchema), the query gateway (TenantDatabase), the  *)
(* record helpers and the request-boundary middleware.                     *)
(*                                                                         *)
(* A step of the model is one database round trip of one call together     *)
(* with the synchronous code that follows it up to the next await.         *)
(* Names (tenant ids, schema names) are sequences of characters, so that   *)
(* the regular expressions and the string operations of the code are       *)
(* computed rather than assumed.                                           *)
(***************************************************************************)
EXTENDS Integers, Sequences, FiniteSets, TLC

VARIABLES
    registry,   \* rows of the global tenants table: [id, schemaName, isActive]
    usedIds,    \* tenant ids ever generated (ids are never reused)
    now,        \* number of schema names generated so far (Date.now() + random)
    schemata,   \* names of the namespaces that exist in the database
    tables,     \* <<schema, table>> pairs that exist
    indexes,    \* <<schema, table, k>>: k-th index of the table definition exists
    rows,       \* domain records: [schema, table, id, is_active, updated_at, origin, val]
    clock,      \* NOW() of the database, advanced by every row mutation
    handles,    \* TenantDatabase instances: [tenantId, schemaName]
    proc,       \* the call each process is running and its position in it
    faults      \* database round trips that have failed so far

vars == <<registry, usedIds, now, schemata, tables, indexes, rows, clock,
          handles, proc, faults>>

----------------------------------------------------------------------------
(* Bounds of the model *)

MaxNames == 3
MaxFaults == 1
MaxClock == 3

Procs == {1, 2}

----------------------------------------------------------------------------
(* Characters and names *)

Letters == {"t", "a", "b", "c", "d", "n", "p", "u", "x", "y"}
DigitChars == <<"1", "2", "3", "4", "5", "6", "7", "8", "9">>
DigitSet == {DigitChars[i] : i \in 1..Len(DigitChars)}

\* a test that accepts every name
IsValidSchemaNameAny(name) == TRUE

\* /^[a-zA-Z0-9_]+$/
IsValidSchemaName(name) ==
    /\ Len(name) > 0
    /\ \A i \in 1..Len(name) : name[i] \in Letters \cup DigitSet \cup {"_"}

\* str.replace(/-/g, '')
StripHyphens(str) == SelectSeq(str, LAMBDA c : c # "-")

\* "t" stands for the literal "tenant"; the time stamp and the random suffix
\* of createTenant are one fresh token.
BaseSchemaName(token) == <<"t", "_", DigitChars[token]>>

GeneratedSchemaName(token) == StripHyphens(BaseSchemaName(token))

\* tenantDB.getSchemaName / Database.getSchemaName
DerivedSchemaName(tenantId) == <<"t", "_">> \o StripHyphens(tenantId)

TenantIds == {<<"a", "-", "1">>, <<"b", "-", "2">>}

\* an id no registry row has
UnknownTenant == <<"c", "-", "3">>

CallerIds == TenantIds \cup {UnknownTenant}

NoName == <<>>   \* undefined / empty string: both are falsy in the code

\* A name outside the pattern, and the names a caller may put in tenantData or
\* in the body of an update: that one, and the name an existing tenant has.
InvalidName == <<"x", "-", "y">>

SuppliedNames == {InvalidName, GeneratedSchemaName(1)}

PublicSchema == <<"p", "u", "b">>   \* where an unqualified table name resolves

----------------------------------------------------------------------------
(* Table definitions *)

RequiredTables ==
    <<"clients", "projects", "tasks", "transactions",
      "invoices", "publications", "categories">>

\* Mutant: the definition of the last required table is missing.
TableDefinitionsWithoutCategories ==
    << [name |-> "clients",      nidx |-> 3],
       [name |-> "projects",     nidx |-> 3],
       [name |-> "tasks",        nidx |-> 3],
       [name |-> "transactions", nidx |-> 3],
       [name |-> "invoices",     nidx |-> 3],
       [name |-> "publications", nidx |-> 3] >>

TableDefinitions ==
    << [name |-> "clients",      nidx |-> 3],
       [name |-> "projects",     nidx |-> 3],
       [name |-> "tasks",        nidx |-> 3],
       [name |-> "transactions", nidx |-> 3],
       [name |-> "invoices",     nidx |-> 3],
       [name |-> "publications", nidx |-> 3],
       [name |-> "categories",   nidx |-> 2] >>

SeqToSet(s) == {s[i] : i \in 1..Len(s)}

\* Mutant: the statements lack IF NOT EXISTS.
TableStatementsPlain(def, schemaName) ==
    [k \in 1..(def.nidx + 1) |->
        IF k = 1
        THEN [kind |-> "create_table", schema |-> schemaName,
              table |-> def.name, idx |-> 0, ine |-> FALSE]
        ELSE [kind |-> "create_index", schema |-> schemaName,
              table |-> def.name, idx |-> k - 1, ine |-> FALSE]]

\* The statements of one table definition after split(';'): CREATE TABLE IF
\* NOT EXISTS, then one CREATE INDEX IF NOT EXISTS per index.
TableStatements(def, schemaName) ==
    [k \in 1..(def.nidx + 1) |->
        IF k = 1
        THEN [kind |-> "create_table", schema |-> schemaName,
              table |-> def.name, idx |-> 0, ine |-> TRUE]
        ELSE [kind |-> "create_index", schema |-> schemaName,
              table |-> def.name, idx |-> k - 1, ine |-> TRUE]]

CreateSchemaStatement(schemaName) ==
    [kind |-> "create_schema", schema |-> schemaName,
     table |-> "", idx |-> 0, ine |-> TRUE]

\* tableDefinitions.find(t => t.name === tableName): its position, 0 if none
FindTableDef(tableName) ==
    IF \E i \in 1..Len(TableDefinitions) : TableDefinitions[i].name = tableName
    THEN CHOOSE i \in 1..Len(TableDefinitions) :
            /\ TableDefinitions[i].name = tableName
            /\ \A j \in 1..(i - 1) : TableDefinitions[j].name # tableName
    ELSE 0

\* a drift check that reports nothing missing
MissingTablesNone(existing) == <<>>

\* the filter is dropped, every required table counts as missing
MissingTablesUnfiltered(existing) == RequiredTables

\* requiredTables.filter(table => !existingTableNames.includes(table))
MissingTables(existing) == SelectSeq(RequiredTables, LAMBDA t : t \notin existing)

----------------------------------------------------------------------------
(* The database catalog *)

ExistingTables(schemaName) == {tb[2] : tb \in {x \in tables : x[1] = schemaName}}

\* Whether the database rejects the DDL statement in the current catalog.
DdlRejected(st) ==
    CASE st.kind = "create_schema" -> st.schema \in schemata /\ ~st.ine
      [] st.kind = "create_table"  ->
            \/ st.schema \notin schemata
            \/ <<st.schema, st.table>> \in tables /\ ~st.ine
      [] st.kind = "create_index"  ->
            \/ <<st.schema, st.table>> \notin tables
            \/ <<st.schema, st.table, st.idx>> \in indexes /\ ~st.ine
      [] OTHER -> FALSE

SchemataAfter(st) ==
    IF st.kind = "create_schema" THEN schemata \cup {st.schema} ELSE schemata

TablesAfter(st) ==
    IF st.kind = "create_table" THEN tables \cup {<<st.schema, st.table>>} ELSE tables

IndexesAfter(st) ==
    IF st.kind = "create_index"
    THEN indexes \cup {<<st.schema, st.table, st.idx>>}
    ELSE indexes

catalog == <<schemata, tables, indexes>>

Snapshot == [schemata |-> schemata, tables |-> tables,
             indexes |-> indexes, rows |-> rows]

----------------------------------------------------------------------------
(* The registry *)

HasTenant(id) == \E r \in registry : r.id = id

\* a lookup that ignored its where clause
TenantRowAny(id) == CHOOSE r \in registry : TRUE

\* prisma.tenant.findUnique({ where: { id } })
TenantRow(id) == CHOOSE r \in registry : r.id = id

----------------------------------------------------------------------------
(* Processes: one call at a time each *)

NoStatement == [kind |-> "none", schema |-> NoName, table |-> "", idx |-> 0, ine |-> FALSE]

NoUser == [role |-> "", tenantId |-> NoName, present |-> FALSE]

NoSnapshot == [schemata |-> {}, tables |-> {}, indexes |-> {}, rows |-> {}]

NoQuery == [kind |-> "none", qual |-> "", table |-> "", id |-> 0, val |-> 0]

NoResponse == [status |-> 0, error |-> ""]

NoHandle == [tenantId |-> NoName, schemaName |-> NoName]

NoBuilt == [columns |-> <<>>, placeholders |-> <<>>, values |-> <<>>,
            where |-> [n |-> 0, cast |-> "none"]]

IsLive(id) == HasTenant(id) /\ TenantRow(id).isActive

IdleProc ==
    [op |-> "idle", phase |-> 0, pc |-> "idle",
     tid |-> NoName,        \* tenantId argument
     sn |-> NoName,         \* finalSchemaName / schemaName local
     ti |-> 0, si |-> 0,    \* position in the table and statement loops
     todo |-> <<>>,         \* missingTables
     status |-> "none",     \* none | ok | err
     err |-> "",            \* kind of the error thrown to the caller
     ret |-> NoName,        \* schema name returned by the call
     issued |-> {},         \* statements this call has sent to the database
     seen |-> {},           \* table names validateTenantTables read
     validated |-> FALSE,   \* the schema name passed the regular expression
     calls |-> 0,           \* successive calls of the same kind by this process
     snap |-> NoSnapshot,   \* the database when the call began
     q |-> NoQuery,         \* query template and parameters of the caller
     ran |-> FALSE,         \* the caller's query was sent to the database
     target |-> NoName,     \* namespace the caller's query ran against
     result |-> {},         \* rows the caller's query returned
     liveAtBegin |-> FALSE, \* the tenant was registered and active at the call
     rowSeen |-> "none",    \* what the call's registry read found: active | inactive | absent
     user |-> NoUser,       \* req.user
     response |-> NoResponse,  \* what res.status(..).json(..) sent
     responses |-> 0,       \* number of responses sent
     reqTenant |-> NoName,  \* req.tenant.id / req.tenantId
     reqTenantDB |-> NoHandle, \* req.tenantDB
     route |-> "",          \* the router the request went to
     gateSeen |-> "none",   \* what validateTenantAccess's registry read found
     passed |-> {},         \* the middleware that called next()
     entered |-> FALSE,     \* the controller was entered
     faulted |-> FALSE,     \* a round trip of the call failed at the database
     decoded |-> NoUser,    \* what jwt.verify returned
     supplied |-> NoName,   \* tenantData.schemaName / schema_name of the caller
     nexts |-> 0,           \* how many times next() was called
     data |-> <<>>,         \* the data argument of a record helper
     version |-> "",        \* which copy of the helpers builds the statement
     built |-> NoBuilt]     \* the statement text and its parameter list

Running(p) == proc[p].pc \notin {"idle", "done"}

\* Calls whose effect on the catalog is compared with the state they began in.
ProvisioningOps == {"ensure", "createTenant", "adminCreate"}

\* A new call of process p: everything local is reset.
NewCall(p, op, tid) ==
    [IdleProc EXCEPT !.op = op, !.phase = 1, !.tid = tid,
                     !.snap = IF op \in ProvisioningOps THEN Snapshot ELSE NoSnapshot,
                     !.liveAtBegin = IsLive(tid),
                     !.calls = IF proc[p].op = op /\ proc[p].tid = tid
                                  /\ proc[p].status = "ok"
                               THEN 2 ELSE 1]

Done(pr) == [pr EXCEPT !.pc = "done", !.status = "ok"]

Failed(pr, kind) == [pr EXCEPT !.pc = "done", !.status = "err", !.err = kind]

\* ensureTenantSchema(tenantId, schemaName): if (!finalSchemaName) look it up
EnterEnsure(pr, schemaName) ==
    IF schemaName = NoName
    THEN [pr EXCEPT !.pc = "e_lookup", !.sn = NoName]
    ELSE [pr EXCEPT !.pc = "e_check", !.sn = schemaName]

\* deleteTenant(id)
EnterDelete(pr) == [pr EXCEPT !.pc = "d_find"]

\* res.status(code).json({ error })
Respond(pr, code, error) ==
    [pr EXCEPT !.pc = "done", !.status = "ok",
               !.response = [status |-> code, error |-> error],
               !.responses = @ + 1]

\* Calls that end in TenantDatabase.executeInTenantSchema's final query.
ExecuteOps ==
    {"executeInTenantSchema", "tenantDB.execute", "queryTenantSchema",
     "insertInTenantSchema", "updateInTenantSchema", "softDeleteInTenantSchema"}

\* The callee of (op, phase) has returned normally: the caller goes on.
AfterReturn(pr) ==
    CASE pr.op = "ensure" -> Done([pr EXCEPT !.ret = pr.sn])
      [] pr.op = "createTenant" -> Done([pr EXCEPT !.ret = pr.sn])
      [] pr.op = "adminCreate" /\ pr.phase = 1 ->
            \* database.createTenant returned; this.createTenantSchema follows
            EnterEnsure([pr EXCEPT !.phase = 2], pr.sn)
      [] pr.op = "adminCreate" /\ pr.phase = 2 -> Done([pr EXCEPT !.ret = pr.sn])
      [] pr.op = "adminCreate" /\ pr.phase = 3 ->
            \* the rollback is done: throw new Error('Failed to create tenant schema')
            Failed(pr, "schema_failed")
      [] pr.op = "deleteTenant" -> Done(pr)
      [] pr.op = "getTenantDatabase" -> Done([pr EXCEPT !.ret = pr.sn])
      [] pr.op = "tenantDB.execute" /\ pr.phase = 1 ->
            \* getTenantDatabase returned the instance; its executeInTenantSchema
            \* takes the cached name and ensures the schema again
            EnterEnsure([pr EXCEPT !.phase = 2], pr.sn)
      [] pr.op \in ExecuteOps /\ ~(pr.op = "tenantDB.execute" /\ pr.phase = 1) ->
            \* ensureTenantSchema returned: the caller's query is next
            [pr EXCEPT !.pc = "x_query"]
      [] OTHER -> Done(pr)

\* The callee of (op, phase) has thrown.
AfterThrow(pr, kind) ==
    CASE pr.op = "adminCreate" /\ pr.phase = 2 ->
            \* catch (schemaError): await database.deleteTenant(tenant.id)
            EnterDelete([pr EXCEPT !.phase = 3])
      [] pr.pc = "at_tenants" ->
            \* authenticateToken's catch
            Respond(pr, 403, "Invalid or expired token")
      [] pr.pc = "va_tenants" ->
            \* validateTenantAccess's catch
            Respond(pr, 500, "Internal server error during tenant validation")
      [] OTHER -> Failed(pr, kind)

HandlesAfterReturn(pr) ==
    IF pr.op = "getTenantDatabase"
    THEN handles \cup {[tenantId |-> pr.tid, schemaName |-> pr.sn]}
    ELSE handles

Stay(p, pr) == proc' = [proc EXCEPT ![p] = pr] /\ UNCHANGED handles

Return(p, pr) ==
    /\ proc' = [proc EXCEPT ![p] = AfterReturn(pr)]
    /\ handles' = HandlesAfterReturn(pr)

Raise(p, pr, kind) ==
    /\ proc' = [proc EXCEPT ![p] = AfterThrow(pr, kind)]
    /\ UNCHANGED handles

Issue(pr, st) == [pr EXCEPT !.issued = @ \cup {st}]

\* One DDL statement of the provisioner: rejected by the database, or applied.
DdlStep(p, st, prNext, returns) ==
    IF DdlRejected(st)
    THEN /\ Raise(p, Issue(proc[p], st), "db")
         /\ UNCHANGED catalog
    ELSE /\ schemata' = SchemataAfter(st)
         /\ tables' = TablesAfter(st)
         /\ indexes' = IndexesAfter(st)
         /\ IF returns THEN Return(p, Issue(prNext, st)) ELSE Stay(p, Issue(prNext, st))

----------------------------------------------------------------------------
(* Database.ensureTenantSchema *)

EnsureLookup(p) ==
    /\ proc[p].pc = "e_lookup"
    /\ IF HasTenant(proc[p].tid)
       THEN Stay(p, [proc[p] EXCEPT !.sn = TenantRow(proc[p].tid).schemaName,
                                    !.pc = "e_check"])
       ELSE Raise(p, proc[p], "not_found")
    /\ UNCHANGED <<registry, usedIds, now, catalog, rows, clock, faults>>

\* The schemata query, then createTenantSchemaWithTables's name check or
\* the entry of validateTenantTables.
EnsureCheck(p) ==
    /\ proc[p].pc = "e_check"
    /\ IF proc[p].sn \notin schemata
       THEN IF IsValidSchemaName(proc[p].sn)
            THEN Stay(p, [proc[p] EXCEPT !.pc = "c_schema", !.validated = TRUE])
            ELSE Raise(p, proc[p], "invalid_name")
       ELSE Stay(p, [proc[p] EXCEPT !.pc = "v_tables"])
    /\ UNCHANGED <<registry, usedIds, now, catalog, rows, clock, faults>>

CreateSchema(p) ==
    /\ proc[p].pc = "c_schema"
    /\ IF Len(TableDefinitions) = 0
       THEN DdlStep(p, CreateSchemaStatement(proc[p].sn), proc[p], TRUE)
       ELSE DdlStep(p, CreateSchemaStatement(proc[p].sn),
                    [proc[p] EXCEPT !.pc = "c_stmt", !.ti = 1, !.si = 1], FALSE)
    /\ UNCHANGED <<registry, usedIds, now, rows, clock, faults>>

\* One statement of the loop over tableDefinitions.
CreateStatement(p) ==
    /\ proc[p].pc = "c_stmt"
    /\ LET pr == proc[p]
           stmts == TableStatements(TableDefinitions[pr.ti], pr.sn)
       IN  IF pr.si < Len(stmts)
           THEN DdlStep(p, stmts[pr.si], [pr EXCEPT !.si = pr.si + 1], FALSE)
           ELSE IF pr.ti < Len(TableDefinitions)
           THEN DdlStep(p, stmts[pr.si], [pr EXCEPT !.ti = pr.ti + 1, !.si = 1], FALSE)
           ELSE DdlStep(p, stmts[pr.si], pr, TRUE)
    /\ UNCHANGED <<registry, usedIds, now, rows, clock, faults>>

\* First position at or after i of todo whose table has a definition; 0 if none.
NextDefined(todo, i) ==
    IF \E j \in i..Len(todo) : FindTableDef(todo[j]) # 0
    THEN CHOOSE j \in i..Len(todo) :
            /\ FindTableDef(todo[j]) # 0
            /\ \A k \in i..(j - 1) : FindTableDef(todo[k]) = 0
    ELSE 0

\* validateTenantTables: the tables query and the filter.
ListTables(p) ==
    /\ proc[p].pc = "v_tables"
    /\ LET existing == ExistingTables(proc[p].sn)
           missing == MissingTables(existing)
           first == NextDefined(missing, 1)
           pr == [proc[p] EXCEPT !.seen = existing, !.todo = missing]
       IN  IF first = 0
           THEN Return(p, pr)
           ELSE Stay(p, [pr EXCEPT !.pc = "m_stmt", !.ti = first, !.si = 1])
    /\ UNCHANGED <<registry, usedIds, now, catalog, rows, clock, faults>>

\* One statement of createMissingTables.
MissingStatement(p) ==
    /\ proc[p].pc = "m_stmt"
    /\ LET pr == proc[p]
           stmts == TableStatements(TableDefinitions[FindTableDef(pr.todo[pr.ti])], pr.sn)
           nxt == NextDefined(pr.todo, pr.ti + 1)
       IN  IF pr.si < Len(stmts)
           THEN DdlStep(p, stmts[pr.si], [pr EXCEPT !.si = pr.si + 1], FALSE)
           ELSE IF nxt # 0
           THEN DdlStep(p, stmts[pr.si], [pr EXCEPT !.ti = nxt, !.si = 1], FALSE)
           ELSE DdlStep(p, stmts[pr.si], pr, TRUE)
    /\ UNCHANGED <<registry, usedIds, now, rows, clock, faults>>

EnsureSteps(p) ==
    \/ EnsureLookup(p)
    \/ EnsureCheck(p)
    \/ CreateSchema(p)
    \/ CreateStatement(p)
    \/ ListTables(p)
    \/ MissingStatement(p)

\* A call of ensureTenantSchema(tenantId) or ensureTenantSchema(tenantId,
\* schemaName) with the name a caller read from the registry.
BeginEnsure(p, tid, withName) ==
    /\ ~Running(p)
    /\ HasTenant(tid)
    /\ proc' = [proc EXCEPT ![p] =
            EnterEnsure(NewCall(p, "ensure", tid),
                        IF withName THEN TenantRow(tid).schemaName ELSE NoName)]
    /\ UNCHANGED <<registry, usedIds, now, catalog, rows, clock, handles, faults>>

----------------------------------------------------------------------------
(* Database.createTenant and AdminController.createTenant *)

\* Database.createTenant: the schema name is generated, whatever the caller
\* supplied; the registry row is inserted next.
BeginCreateTenant(p) ==
    /\ ~Running(p)
    /\ now < MaxNames
    /\ now' = now + 1
    /\ proc' = [proc EXCEPT ![p] =
            [NewCall(p, "createTenant", NoName) EXCEPT
                !.pc = "t_create", !.sn = GeneratedSchemaName(now + 1)]]
    /\ UNCHANGED <<registry, usedIds, catalog, rows, clock, handles, faults>>

\* schemaName of prismaData, as the version that stored the caller's value
\* computed it: tenantData.schema_name || tenantData.schemaName
StoredSchemaNameSupplied(generated, supplied) ==
    IF supplied # NoName THEN supplied ELSE generated

\* schemaName of prismaData: normalizedSchemaName, whatever tenantData holds
StoredSchemaName(generated, supplied) == generated

\* Database.createTenant(tenantData) with a schemaName among tenantData.
\* Date.now() and Math.random() give a new value, or the value they gave to
\* the previous creation.
BeginCreateTenantWith(p, supplied) ==
    /\ ~Running(p)
    /\ \E token \in {now, now + 1} :
        /\ token <= MaxNames
        /\ now' = token
        /\ proc' = [proc EXCEPT ![p] =
                [NewCall(p, "createTenant", NoName) EXCEPT
                    !.pc = "t_create", !.supplied = supplied,
                    !.sn = StoredSchemaName(GeneratedSchemaName(token), supplied)]]
    /\ UNCHANGED <<registry, usedIds, catalog, rows, clock, handles, faults>>

\* AdminController.createTenant generates a name of its own and passes it in
\* tenantData; Database.createTenant then generates the one it stores.
BeginAdminCreateTenant(p) ==
    /\ ~Running(p)
    /\ now + 1 < MaxNames
    /\ now' = now + 2
    /\ proc' = [proc EXCEPT ![p] =
            [NewCall(p, "adminCreate", NoName) EXCEPT
                !.pc = "t_create", !.sn = GeneratedSchemaName(now + 2)]]
    /\ UNCHANGED <<registry, usedIds, catalog, rows, clock, handles, faults>>

\* prisma.tenant.create: schema_name is UNIQUE in the tenants table.
TenantCreate(p) ==
    /\ proc[p].pc = "t_create"
    /\ IF \E r \in registry : r.schemaName = proc[p].sn
       THEN /\ Raise(p, proc[p], "db")
            /\ UNCHANGED <<registry, usedIds>>
       ELSE \E id \in TenantIds \ usedIds :
            /\ registry' = registry \cup
                    {[id |-> id, schemaName |-> proc[p].sn, isActive |-> TRUE]}
            /\ usedIds' = usedIds \cup {id}
            /\ Stay(p, EnterEnsure([proc[p] EXCEPT !.tid = id], proc[p].sn))
    /\ UNCHANGED <<now, catalog, rows, clock, faults>>

----------------------------------------------------------------------------
(* Database.deleteTenant *)

BeginDeleteTenant(p, id) ==
    /\ ~Running(p)
    /\ id \in usedIds
    /\ proc' = [proc EXCEPT ![p] = EnterDelete(NewCall(p, "deleteTenant", id))]
    /\ UNCHANGED <<registry, usedIds, now, catalog, rows, clock, handles, faults>>

\* findUnique, then the check of the stored name
DeleteFind(p) ==
    /\ proc[p].pc = "d_find"
    /\ IF HasTenant(proc[p].tid)
       THEN LET name == TenantRow(proc[p].tid).schemaName
            IN  IF IsValidSchemaName(name)
                THEN Stay(p, [proc[p] EXCEPT !.pc = "d_drop", !.sn = name])
                ELSE Raise(p, proc[p], "invalid_name")
       ELSE Stay(p, [proc[p] EXCEPT !.pc = "d_delete"])
    /\ UNCHANGED <<registry, usedIds, now, catalog, rows, clock, faults>>

\* DROP SCHEMA IF EXISTS ... CASCADE
DeleteDrop(p) ==
    /\ proc[p].pc = "d_drop"
    /\ LET name == proc[p].sn
       IN  /\ schemata' = schemata \ {name}
           /\ tables' = {x \in tables : x[1] # name}
           /\ indexes' = {x \in indexes : x[1] # name}
           /\ rows' = {r \in rows : r.schema # name}
           /\ Stay(p, [proc[p] EXCEPT
                    !.pc = "d_delete",
                    !.issued = @ \cup {[kind |-> "drop_schema", schema |-> name,
                                        table |-> "", idx |-> 0, ine |-> TRUE]}])
    /\ UNCHANGED <<registry, usedIds, now, clock, faults>>

\* prisma.tenant.delete throws when no row has the id
DeleteRow(p) ==
    /\ proc[p].pc = "d_delete"
    /\ IF HasTenant(proc[p].tid)
       THEN /\ registry' = registry \ {TenantRow(proc[p].tid)}
            /\ Return(p, proc[p])
       ELSE /\ Raise(p, proc[p], "not_found")
            /\ UNCHANGED registry
    /\ UNCHANGED <<usedIds, now, catalog, rows, clock, faults>>

DeleteSteps(p) == DeleteFind(p) \/ DeleteDrop(p) \/ DeleteRow(p)

----------------------------------------------------------------------------
(* Database.updateTenant with { isActive } (AdminController.toggleTenantStatus) *)

UpdateTenant(id, isActive) ==
    /\ HasTenant(id)
    /\ registry' = (registry \ {TenantRow(id)}) \cup
            {[TenantRow(id) EXCEPT !.isActive = isActive]}
    /\ UNCHANGED <<usedIds, now, catalog, rows, clock, handles, proc, faults>>

\* Database.updateTenant with { schemaName } (AdminController.updateTenant
\* passes req.body on); schema_name is UNIQUE.
RenameTenant(id, name) ==
    /\ HasTenant(id)
    /\ ~\E r \in registry : r.id # id /\ r.schemaName = name
    /\ registry' = (registry \ {TenantRow(id)}) \cup
            {[TenantRow(id) EXCEPT !.schemaName = name]}
    /\ UNCHANGED <<usedIds, now, catalog, rows, clock, handles, proc, faults>>

----------------------------------------------------------------------------
(* Resolving a tenant: tenantDB.getTenantDatabase, Database.getTenantSchema *)

RowState(id) ==
    IF ~HasTenant(id) THEN "absent"
    ELSE IF TenantRow(id).isActive THEN "active" ELSE "inactive"

BeginGetTenantDatabase(p, tid) ==
    /\ ~Running(p)
    /\ proc' = [proc EXCEPT ![p] =
            [NewCall(p, "getTenantDatabase", tid) EXCEPT !.pc = "g_find"]]
    /\ UNCHANGED <<registry, usedIds, now, catalog, rows, clock, handles, faults>>

\* getTenantById, the two checks, and the entry of ensureTenantSchema with
\* the stored name.
GetFind(p) ==
    /\ proc[p].pc = "g_find"
    /\ LET pr == [proc[p] EXCEPT !.rowSeen = RowState(proc[p].tid)]
       IN  IF ~HasTenant(pr.tid)
           THEN Raise(p, pr, "not_found")
           ELSE IF ~TenantRow(pr.tid).isActive
           THEN Raise(p, pr, "inactive")
           ELSE Stay(p, EnterEnsure(pr, TenantRow(pr.tid).schemaName))
    /\ UNCHANGED <<registry, usedIds, now, catalog, rows, clock, faults>>

BeginGetTenantSchema(p, tid) ==
    /\ ~Running(p)
    /\ proc' = [proc EXCEPT ![p] =
            [NewCall(p, "getTenantSchema", tid) EXCEPT !.pc = "s_find"]]
    /\ UNCHANGED <<registry, usedIds, now, catalog, rows, clock, handles, faults>>

\* Database.getTenantSchema: findUnique selecting schemaName only.
SchemaFind(p) ==
    /\ proc[p].pc = "s_find"
    /\ LET pr == [proc[p] EXCEPT !.rowSeen = RowState(proc[p].tid)]
       IN  IF ~HasTenant(pr.tid)
           THEN Raise(p, pr, "not_found")
           ELSE Return(p, [pr EXCEPT !.sn = TenantRow(pr.tid).schemaName,
                                     !.ret = TenantRow(pr.tid).schemaName])
    /\ UNCHANGED <<registry, usedIds, now, catalog, rows, clock, faults>>

----------------------------------------------------------------------------
(* Queries: templates, the namespace they run against, and their effect *)

UndefinedSchema == <<"u", "n", "d">>

RowIds == {1}

\* finalQuery = query.replace(/\$\{schema\}/g, schemaName): a template that
\* holds the placeholder runs in the gateway's namespace; an unqualified table
\* name is resolved by the search path; a template that interpolated
\* tenantDB.schema names the schema "undefined"; one that interpolated
\* tenantDB.getSchemaName(tenantId) names the derived schema.
FinalSchema(qual, schemaName, tenantId) ==
    CASE qual = "placeholder" -> schemaName
      [] qual = "unqualified" -> PublicSchema
      [] qual = "undefined" -> UndefinedSchema
      [] qual = "derived" -> DerivedSchemaName(tenantId)

HelperOp(kind) ==
    CASE kind = "insert" -> "insertInTenantSchema"
      [] kind \in {"update", "updateAny", "updateNone"} -> "updateInTenantSchema"
      [] kind \in {"softDelete", "softDeleteAny"} -> "softDeleteInTenantSchema"
      [] OTHER -> "queryTenantSchema"

Query(kind, qual, table, id, val) ==
    [kind |-> kind, qual |-> qual, table |-> table, id |-> id, val |-> val]

\* The statements the record helpers build. updateInTenantSchema exists with
\* WHERE id = $1 AND is_active = TRUE (kind update) and with WHERE id = $1
\* (kind updateAny); softDeleteInTenantSchema likewise (softDelete,
\* softDeleteAny). updateNone is updateInTenantSchema with data = {}: its
\* setClause is empty and the statement reads SET , updated_at = NOW().
HelperKinds ==
    {"insert", "update", "updateAny", "updateNone", "softDelete", "softDeleteAny"}

HelperQueries ==
    {Query(kind, "placeholder", table, id,
           IF kind = "insert" THEN 1
           ELSE IF kind \in {"update", "updateAny"} THEN 2 ELSE 0) :
        kind \in HelperKinds, table \in {"invoices"}, id \in RowIds}

\* The templates the entity services pass to queryTenantSchema.
ServiceQueries ==
    {Query("create_table", "unqualified", "tasks", 0, 0),
     Query("select", "unqualified", "tasks", 0, 0),
     Query("create_table", "placeholder", "invoices", 0, 0),
     Query("select", "placeholder", "invoices", 0, 0),
     Query("create_table", "undefined", "notifications", 0, 0)}

\* DashboardService's template, run through tenantDB.executeInTenantSchema.
FactoryQueries == {Query("select", "derived", "tasks", 0, 0)}

IsWrite(q) == q.kind \in HelperKinds

Matching(q, target) ==
    {r \in rows : r.schema = target /\ r.table = q.table
                    /\ (q.kind \in {"updateAny", "softDeleteAny"} \/ r.is_active)
                    /\ (q.id = 0 \/ r.id = q.id)}

QueryRejected(q, target) ==
    \/ q.kind = "updateNone"
    \/ target \notin schemata
    \/ q.kind # "create_table" /\ <<target, q.table>> \notin tables
    \/ q.kind = "insert" /\ \E r \in rows :
            r.schema = target /\ r.table = q.table /\ r.id = q.id

Written(q, target, origin, r) ==
    CASE q.kind = "insert" ->
            [schema |-> target, table |-> q.table, id |-> q.id, is_active |-> TRUE,
             updated_at |-> clock + 1, origin |-> origin, val |-> q.val]
      [] q.kind \in {"update", "updateAny"} ->
            [r EXCEPT !.val = q.val, !.updated_at = clock + 1]
      [] q.kind \in {"softDelete", "softDeleteAny"} ->
            [r EXCEPT !.is_active = FALSE, !.updated_at = clock + 1]

\* RETURNING *
QueryResult(q, target, origin) ==
    CASE q.kind = "select" -> Matching(q, target)
      [] q.kind = "insert" -> {Written(q, target, origin, NoQuery)}
      [] q.kind \in HelperKinds \ {"insert"} ->
            {Written(q, target, origin, r) : r \in Matching(q, target)}
      [] OTHER -> {}

RowsAfterQuery(q, target, origin) ==
    CASE q.kind = "insert" -> rows \cup QueryResult(q, target, origin)
      [] q.kind \in HelperKinds \ {"insert"} ->
            (rows \ Matching(q, target)) \cup QueryResult(q, target, origin)
      [] OTHER -> rows

TablesAfterQuery(q, target) ==
    IF q.kind = "create_table" THEN tables \cup {<<target, q.table>>} ELSE tables

PendingWrites == Cardinality({p \in Procs : Running(p) /\ IsWrite(proc[p].q)})

----------------------------------------------------------------------------
(* TenantDatabase.executeInTenantSchema and the callers that end in it *)

\* A helper or a service template, through a TenantDatabase instance:
\* getSchemaName returns the cached name, ensureTenantSchema is called with it.
BeginHelper(p, h, q) ==
    /\ ~Running(p)
    /\ h \in handles
    /\ IsWrite(q) => clock + PendingWrites < MaxClock
    /\ proc' = [proc EXCEPT ![p] =
            EnterEnsure([NewCall(p, HelperOp(q.kind), h.tenantId) EXCEPT !.q = q],
                        h.schemaName)]
    /\ UNCHANGED <<registry, usedIds, now, catalog, rows, clock, handles, faults>>

\* tenantDB.executeInTenantSchema(tenantId, query): getTenantDatabase first.
BeginFactoryExecute(p, tid, q) ==
    /\ ~Running(p)
    /\ proc' = [proc EXCEPT ![p] =
            [NewCall(p, "tenantDB.execute", tid) EXCEPT !.pc = "g_find", !.q = q]]
    /\ UNCHANGED <<registry, usedIds, now, catalog, rows, clock, handles, faults>>

\* prisma.$queryRawUnsafe(finalQuery, ...params)
RunQuery(p) ==
    /\ proc[p].pc = "x_query"
    /\ LET q == proc[p].q
           target == FinalSchema(q.qual, proc[p].sn, proc[p].tid)
           pr == [proc[p] EXCEPT !.ran = TRUE, !.target = target]
       IN  IF QueryRejected(q, target)
           THEN /\ proc' = [proc EXCEPT ![p] = Failed(pr, "db")]
                /\ UNCHANGED <<tables, rows, clock>>
           ELSE /\ proc' = [proc EXCEPT ![p] =
                        Done([pr EXCEPT !.result = QueryResult(q, target, pr.tid)])]
                /\ rows' = RowsAfterQuery(q, target, pr.tid)
                /\ tables' = TablesAfterQuery(q, target)
                /\ clock' = IF IsWrite(q) THEN clock + 1 ELSE clock
    /\ UNCHANGED <<registry, usedIds, now, schemata, indexes, handles, faults>>

----------------------------------------------------------------------------
(* The request pipeline: authenticateToken, tenantMiddleware,              *)
(* validateTenantAccess, then the controller                               *)

\* a bypass for the role admin alone
OnlyAdminRole == {"admin"}

\* user.role === 'admin' || user.role === 'super_admin'
AdminRoles == {"admin", "super_admin"}

Roles == {"", "admin", "super_admin", "user"}

\* What the Authorization header holds: nothing, a token jwt.verify rejects,
\* or a token with its decoded role and tenantId.
Tokens ==
    {[present |-> FALSE, valid |-> FALSE, role |-> "", tenantId |-> NoName],
     [present |-> TRUE, valid |-> FALSE, role |-> "", tenantId |-> NoName]}
    \cup {[present |-> TRUE, valid |-> TRUE, role |-> r, tenantId |-> t] :
            r \in Roles, t \in CallerIds \cup {NoName}}

Users ==
    {NoUser} \cup {[role |-> r, tenantId |-> t, present |-> TRUE] :
                    r \in Roles, t \in CallerIds \cup {NoName}}

\* router.use(...) of routes/tasks.ts and routes/deals.ts
Routes == {"tasks", "deals"}

HasValidateTenantAccess(route) == route = "deals"

\* validateTenantAccess: tenants.rows.find and the two checks, without the
\* check of isActive
GateVerdictWithoutActive(tenants, tenantId) ==
    IF ~\E t \in tenants : t.id = tenantId THEN "not_found" ELSE "ok"

\* validateTenantAccess: tenants.rows.find and the two checks
GateVerdict(tenants, tenantId) ==
    IF ~\E t \in tenants : t.id = tenantId THEN "not_found"
    ELSE IF ~(CHOOSE t \in tenants : t.id = tenantId).isActive THEN "inactive"
    ELSE "ok"

\* authenticateToken: tenants.rows.find and the first check alone
TokenTenantVerdictWithoutActive(tenants, tenantId) ==
    IF ~\E t \in tenants : t.id = tenantId THEN "not_found" ELSE "ok"

\* authenticateToken: tenants.rows.find and the two checks
TokenTenantVerdict(tenants, tenantId) ==
    IF ~\E t \in tenants : t.id = tenantId THEN "not_found"
    ELSE IF ~(CHOOSE t \in tenants : t.id = tenantId).isActive THEN "inactive"
    ELSE "ok"

\* validateTenantAccess: what it answers for a tenant it does not admit
GateDenial(verdict) ==
    IF verdict = "not_found"
    THEN [status |-> 403, error |-> "Access denied: Tenant not found"]
    ELSE [status |-> 403, error |-> "Access denied: Tenant is inactive"]

\* authenticateToken: what it answers for a tenant it does not admit
TokenDenial(verdict) ==
    IF verdict = "not_found"
    THEN [status |-> 403, error |-> "Invalid tenant"]
    ELSE [status |-> 403, error |-> "Tenant is inactive"]

\* a middleware that calls next() a second time
CallsNextTwice(pr, middleware) ==
    [pr EXCEPT !.passed = @ \cup {middleware}, !.nexts = @ + 2]

\* next()
CallsNext(pr, middleware) ==
    [pr EXCEPT !.passed = @ \cup {middleware}, !.nexts = @ + 1]

\* DealsController.getDeals, up to the call of the service
EnterController(pr) ==
    LET e == [pr EXCEPT !.entered = TRUE]
    IN  IF pr.route = "deals" /\ (~pr.user.present \/ pr.reqTenantDB = NoHandle)
        THEN Respond(e, 401, "Authentication required")
        ELSE [e EXCEPT !.pc = "done", !.status = "ok"]

\* validateTenantAccess, up to its await of getAllTenants
EnterValidate(pr) ==
    IF ~pr.user.present
    THEN Respond(pr, 401, "Authentication required")
    ELSE IF pr.user.role \in AdminRoles
    THEN EnterController(CallsNext(pr, "validateTenantAccess"))
    ELSE IF pr.user.tenantId = NoName
    THEN Respond(pr, 403, "Access denied: Invalid user tenant association")
    ELSE [pr EXCEPT !.pc = "va_tenants"]

\* a chain without tenantMiddleware
AfterAuthenticateUnchecked(pr) ==
    LET a == CallsNext(pr, "authenticateToken")
    IN  IF HasValidateTenantAccess(a.route)
        THEN EnterValidate(a)
        ELSE EnterController(a)

\* authenticateToken has called next(): tenantMiddleware, then what follows
AfterAuthenticate(pr) ==
    LET a == CallsNext(pr, "authenticateToken")
    IN  IF a.reqTenant = NoName
        THEN Respond(a, 403, "Tenant not identified")
        ELSE IF HasValidateTenantAccess(a.route)
        THEN EnterValidate(CallsNext(a, "tenantMiddleware"))
        ELSE EnterController(CallsNext(a, "tenantMiddleware"))

\* A request arrives: authenticateToken up to its await of getAllTenants.
BeginRequest(p, route, token) ==
    /\ ~Running(p)
    /\ LET pr == [NewCall(p, "request", token.tenantId) EXCEPT
                        !.route = route,
                        !.decoded = IF token.present /\ token.valid
                                    THEN [role |-> token.role,
                                          tenantId |-> token.tenantId,
                                          present |-> TRUE]
                                    ELSE NoUser]
           authed == [pr EXCEPT !.user = [role |-> token.role,
                                          tenantId |-> token.tenantId,
                                          present |-> TRUE]]
       IN  proc' = [proc EXCEPT ![p] =
                IF ~token.present
                THEN Respond(pr, 401, "Access token required")
                ELSE IF ~token.valid
                THEN Respond(pr, 403, "Invalid or expired token")
                ELSE IF token.role = "" /\ token.tenantId = NoName
                THEN Respond(pr, 403, "Invalid token: missing tenant information")
                ELSE IF token.role = "" /\ token.tenantId # NoName
                THEN [authed EXCEPT !.pc = "at_tenants"]
                ELSE AfterAuthenticate(authed)]
    /\ UNCHANGED <<registry, usedIds, now, catalog, rows, clock, handles, faults>>

\* authenticateToken after getAllTenants
AuthTenants(p) ==
    /\ proc[p].pc = "at_tenants"
    /\ LET pr == [proc[p] EXCEPT !.rowSeen = RowState(proc[p].user.tenantId)]
           verdict == TokenTenantVerdict(registry, pr.user.tenantId)
       IN  proc' = [proc EXCEPT ![p] =
                CASE verdict \in {"not_found", "inactive"} ->
                        Respond(pr, TokenDenial(verdict).status, TokenDenial(verdict).error)
                  [] verdict = "ok" ->
                        AfterAuthenticate([pr EXCEPT !.reqTenant = pr.user.tenantId])]
    /\ UNCHANGED <<registry, usedIds, now, catalog, rows, clock, handles, faults>>

\* validateTenantAccess mounted on its own, after some middleware set req.user
BeginValidateTenantAccess(p, user) ==
    /\ ~Running(p)
    /\ proc' = [proc EXCEPT ![p] =
            EnterValidate([NewCall(p, "validateTenantAccess", user.tenantId) EXCEPT
                                !.user = user, !.route = "deals"])]
    /\ UNCHANGED <<registry, usedIds, now, catalog, rows, clock, handles, faults>>

\* validateTenantAccess after getAllTenants
ValidateTenants(p) ==
    /\ proc[p].pc = "va_tenants"
    /\ LET pr == [proc[p] EXCEPT !.gateSeen = RowState(proc[p].user.tenantId)]
           verdict == GateVerdict(registry, pr.user.tenantId)
       IN  proc' = [proc EXCEPT ![p] =
                CASE verdict \in {"not_found", "inactive"} ->
                        Respond(pr, GateDenial(verdict).status, GateDenial(verdict).error)
                  [] verdict = "ok" ->
                        EnterController(CallsNext(
                            [pr EXCEPT !.reqTenant = pr.user.tenantId],
                            "validateTenantAccess"))]
    /\ UNCHANGED <<registry, usedIds, now, catalog, rows, clock, handles, faults>>

----------------------------------------------------------------------------
(* The statements insertInTenantSchema and updateInTenantSchema build *)

MaxColumns == 2

\* Column names of the data argument, and what a value can be.
Columns == {"tags", "due_date", "client_id", "title"}

Shapes == {"array", "object", "uuid", "scalar", "null"}

\* const jsonbFields = [...]
JsonbFields == {"tags", "address", "metadata", "settings", "data"}

\* const dateFields = [...]
DateFields ==
    {"birth_date", "due_date", "start_date", "end_date", "paid_at", "completed_at"}

\* The copies of the helpers: casts by column name (tenantHelpers.ts 19-153),
\* casts by value (tenantHelpers.ts 172-294), no casts (part_003).
HelperVersions == {"byName", "byValue", "plain"}

\* data as Object.entries gives it: columns in order, each once.
DataRecords ==
    {d \in UNION {[1..n -> [col : Columns, shape : Shapes]] : n \in 0..MaxColumns} :
        \A i \in 1..Len(d) : \A j \in 1..Len(d) : i # j => d[i].col # d[j].col}

\* jsonbFields.includes(col), then dateFields.includes(col)
CastByName(col) ==
    IF col \in JsonbFields THEN "jsonb"
    ELSE IF col \in DateFields THEN "date"
    ELSE "none"

\* typeof value === 'object' && value !== null && !Array.isArray(value), then
\* the match of the 8-4-4-4-12 pattern
CastByValue(shape) ==
    IF shape = "object" THEN "jsonb"
    ELSE IF shape = "uuid" THEN "uuid"
    ELSE "none"

InsertCast(version, col, shape) ==
    IF version = "byName" THEN CastByName(col) ELSE "none"

UpdateCast(version, col, shape) ==
    CASE version = "byName" -> CastByName(col)
      [] version = "byValue" -> CastByValue(shape)
      [] OTHER -> "none"

\* Object.entries(data).filter(([_, v]) => v !== undefined && v !== null)
CleanData(data) == SelectSeq(data, LAMBDA e : e.shape # "null")

\* numbering that starts at the first column with $2
FirstPlaceholderAfterId(version) == 2

\* The number of the first column's placeholder in an UPDATE: $2 after the
\* id, or $1 with the id last.
FirstPlaceholder(version) == IF version = "byValue" THEN 1 ELSE 2

\* INSERT INTO ... (columns) VALUES (placeholders), and values. A value is
\* named by the column it was supplied for.
InsertStatement(version, data) ==
    LET d == IF version = "byName" THEN CleanData(data) ELSE data
    IN  [columns |-> [i \in 1..Len(d) |-> d[i].col],
         placeholders |-> [i \in 1..Len(d) |->
                [n |-> i, cast |-> InsertCast(version, d[i].col, d[i].shape)]],
         values |-> [i \in 1..Len(d) |-> d[i].col],
         where |-> [n |-> 0, cast |-> "none"]]

\* UPDATE ... SET setClause WHERE id = ..., and values
UpdateStatement(version, data) ==
    LET cols == [i \in 1..Len(data) |-> data[i].col]
        first == FirstPlaceholder(version)
    IN  [columns |-> cols,
         placeholders |-> [i \in 1..Len(data) |->
                [n |-> i + first - 1,
                 cast |-> UpdateCast(version, data[i].col, data[i].shape)]],
         values |-> IF version = "byValue" THEN cols \o <<"id">> ELSE <<"id">> \o cols,
         where |-> IF version = "byValue"
                   THEN [n |-> Len(data) + 1, cast |-> "uuid"]
                   ELSE [n |-> 1, cast |-> "none"]]

BuiltCall(p, op, version, built) ==
    [IdleProc EXCEPT !.op = op, !.pc = "done", !.status = "ok",
                     !.data = proc[p].data, !.version = version, !.built = built]

\* insertInTenantSchema, up to the statement it hands to queryTenantSchema
BuildInsert(p, version) ==
    /\ ~Running(p)
    /\ proc' = [proc EXCEPT ![p] =
            BuiltCall(p, "insertInTenantSchema", version,
                      InsertStatement(version, proc[p].data))]
    /\ UNCHANGED <<registry, usedIds, now, catalog, rows, clock, handles, faults>>

\* updateInTenantSchema, up to the statement it hands to executeInTenantSchema
BuildUpdate(p, version) ==
    /\ ~Running(p)
    /\ proc' = [proc EXCEPT ![p] =
            BuiltCall(p, "updateInTenantSchema", version,
                      UpdateStatement(version, proc[p].data))]
    /\ UNCHANGED <<registry, usedIds, now, catalog, rows, clock, handles, faults>>

----------------------------------------------------------------------------
(* A database round trip that fails (connection lost, timeout, disk full) *)

RoundTrips ==
    {"e_lookup", "e_check", "c_schema", "c_stmt", "v_tables", "m_stmt",
     "t_create", "d_find", "d_drop", "d_delete", "g_find", "s_find", "x_query",
     "at_tenants", "va_tenants"}

DbFault(p) ==
    /\ proc[p].pc \in RoundTrips
    /\ faults < MaxFaults
    /\ faults' = faults + 1
    /\ Raise(p, [proc[p] EXCEPT !.faulted = TRUE], "db")
    /\ UNCHANGED <<registry, usedIds, now, catalog, rows, clock>>

----------------------------------------------------------------------------
(* Initial states *)

FirstTenant == <<"a", "-", "1">>
SecondTenant == <<"b", "-", "2">>

TenantRecord(id, token, isActive) ==
    [id |-> id, schemaName |-> GeneratedSchemaName(token), isActive |-> isActive]

\* One domain record; origin is the tenant it was written for.
RowRecord(schemaName, table, id, origin) ==
    [schema |-> schemaName, table |-> table, id |-> id, is_active |-> TRUE,
     updated_at |-> 0, origin |-> origin, val |-> 0]

AllIndexesOf(schemaName, tableSet) ==
    UNION {{<<schemaName, TableDefinitions[i].name, k>> : k \in 1..TableDefinitions[i].nidx} :
            i \in {j \in 1..Len(TableDefinitions) : TableDefinitions[j].name \in tableSet}}

Provisioned(schemaName) ==
    /\ schemaName \in schemata
    /\ \A i \in 1..Len(RequiredTables) : <<schemaName, RequiredTables[i]>> \in tables

\* A namespace as an earlier version of the provisioner, or a dropped table,
\* left it: some of the required tables, each with its indexes and a record,
\* and the notifications table of NotificationsService.
DriftedTables == SUBSET SeqToSet(RequiredTables)

InitCommon ==
    /\ usedIds = {FirstTenant}
    /\ now = 1
    /\ clock = 0
    /\ handles = {}
    /\ faults = 0
    /\ proc = [p \in Procs |-> IdleProc]

InitAbsent ==
    /\ InitCommon
    /\ registry = {TenantRecord(FirstTenant, 1, TRUE)}
    /\ schemata = {PublicSchema}
    /\ tables = {}
    /\ indexes = {}
    /\ rows = {}

InitDrifted ==
    /\ InitCommon
    /\ registry = {TenantRecord(FirstTenant, 1, TRUE)}
    /\ schemata = {PublicSchema, GeneratedSchemaName(1)}
    /\ \E present \in DriftedTables :
        /\ tables = {<<GeneratedSchemaName(1), t>> : t \in present \cup {"notifications"}}
        /\ indexes = AllIndexesOf(GeneratedSchemaName(1), present)
        /\ rows = {RowRecord(GeneratedSchemaName(1), t, 1, FirstTenant) :
                        t \in present \cup {"notifications"}}

----------------------------------------------------------------------------
(* SpecHeal: one caller provisions and re-provisions one tenant, starting  *)
(* from an absent or a drifted namespace.                                  *)

InitHeal == InitAbsent \/ InitDrifted

NextHeal ==
    \/ \E withName \in BOOLEAN : BeginEnsure(1, FirstTenant, withName)
    \/ EnsureSteps(1)

SpecHeal == InitHeal /\ [][NextHeal]_vars

----------------------------------------------------------------------------
(* SpecRace: two callers provision the same tenant, whose namespace does   *)
(* not exist yet, interleaved at every round trip.                         *)

NextRace ==
    \E p \in Procs :
        \/ \E withName \in BOOLEAN : BeginEnsure(p, FirstTenant, withName)
        \/ EnsureSteps(p)

SpecRace == InitAbsent /\ [][NextRace]_vars

----------------------------------------------------------------------------
(* SpecTenant: tenants are created (by Database.createTenant directly or   *)
(* through AdminController.createTenant), deleted and re-provisioned while *)
(* a database round trip may fail.                                         *)

\* The registry is empty: the first tenant was created and deleted earlier.
InitTenant ==
    /\ InitCommon
    /\ registry = {}
    /\ schemata = {PublicSchema}
    /\ tables = {}
    /\ indexes = {}
    /\ rows = {}

NextTenant ==
    \/ BeginCreateTenant(1)
    \/ BeginAdminCreateTenant(1)
    \/ TenantCreate(1)
    \/ \E withName \in BOOLEAN : BeginEnsure(1, SecondTenant, withName)
    \/ EnsureSteps(1)
    \/ BeginDeleteTenant(1, SecondTenant)
    \/ DeleteSteps(1)
    \/ DbFault(1)

SpecTenant == InitTenant /\ [][NextTenant]_vars

----------------------------------------------------------------------------
(* SpecData: two provisioned tenants; callers resolve them, read and write *)
(* records through the helpers and the services' templates, while an       *)
(* administrator toggles the tenants' status. Both namespaces stay         *)
(* complete here, so ensureTenantSchema takes its validation path only.    *)

InitData ==
    /\ usedIds = TenantIds
    /\ now = 2
    /\ clock = 0
    /\ handles = {}
    /\ faults = 0
    /\ proc = [p \in Procs |-> IdleProc]
    /\ registry = {TenantRecord(FirstTenant, 1, TRUE), TenantRecord(SecondTenant, 2, TRUE)}
    /\ schemata = {PublicSchema, GeneratedSchemaName(1), GeneratedSchemaName(2)}
    /\ tables = {<<sn, t>> : sn \in {GeneratedSchemaName(1), GeneratedSchemaName(2)},
                             t \in SeqToSet(RequiredTables)}
    /\ indexes = AllIndexesOf(GeneratedSchemaName(1), SeqToSet(RequiredTables))
                    \cup AllIndexesOf(GeneratedSchemaName(2), SeqToSet(RequiredTables))
    /\ rows = {}

NextData ==
    \/ \E tid \in CallerIds : BeginGetTenantDatabase(1, tid)
    \/ \E tid \in CallerIds : BeginGetTenantSchema(1, tid)
    \/ \E h \in handles, q \in HelperQueries \cup ServiceQueries :
            BeginHelper(1, h, q)
    \/ \E tid \in CallerIds, q \in FactoryQueries : BeginFactoryExecute(1, tid, q)
    \/ GetFind(1)
    \/ SchemaFind(1)
    \/ EnsureCheck(1)
    \/ ListTables(1)
    \/ RunQuery(1)
    \/ \E id \in TenantIds, isActive \in BOOLEAN : UpdateTenant(id, isActive)

SpecData == InitData /\ [][NextData]_vars

----------------------------------------------------------------------------
(* SpecGate: requests pass the middleware of the routers while an          *)
(* administrator toggles the tenants' status and a registry read may fail. *)

NextGate ==
    \/ \E route \in Routes, token \in Tokens : BeginRequest(1, route, token)
    \/ AuthTenants(1)
    \/ \E user \in Users : BeginValidateTenantAccess(1, user)
    \/ ValidateTenants(1)
    \/ \E id \in TenantIds, isActive \in BOOLEAN : UpdateTenant(id, isActive)
    \/ DbFault(1)

SpecGate == InitData /\ [][NextGate]_vars

----------------------------------------------------------------------------
(* SpecAdmin: one provisioned tenant; an administrator creates, renames    *)
(* and deletes tenants while callers provision and query. The tenant's     *)
(* namespace is complete or lacks one table.                               *)

InitAdmin ==
    /\ InitCommon
    /\ registry = {TenantRecord(FirstTenant, 1, TRUE)}
    /\ schemata = {PublicSchema, GeneratedSchemaName(1)}
    /\ \E present \in {SeqToSet(RequiredTables), SeqToSet(RequiredTables) \ {"tasks"}} :
        /\ tables = {<<GeneratedSchemaName(1), t>> : t \in present}
        /\ indexes = AllIndexesOf(GeneratedSchemaName(1), present)
    /\ rows = {}

\* Between two calls a table of a tenant namespace is dropped, with its
\* indexes and its rows: the drift validateTenantTables looks for.
DroppableTables == {"invoices"}

DropTable(schemaName, table) ==
    /\ \A p \in Procs : ~Running(p)
    /\ schemaName # PublicSchema
    /\ <<schemaName, table>> \in tables
    /\ tables' = tables \ {<<schemaName, table>>}
    /\ indexes' = {ix \in indexes : ~(ix[1] = schemaName /\ ix[2] = table)}
    /\ rows' = {r \in rows : ~(r.schema = schemaName /\ r.table = table)}
    /\ UNCHANGED <<registry, usedIds, now, schemata, clock, handles, proc, faults>>

NextAdmin ==
    \/ \E sn \in schemata, t \in DroppableTables : DropTable(sn, t)
    \/ \E id \in TenantIds, name \in SuppliedNames : RenameTenant(id, name)
    \/ \E supplied \in SuppliedNames \cup {NoName} : BeginCreateTenantWith(1, supplied)
    \/ TenantCreate(1)
    \/ \E tid \in TenantIds, withName \in BOOLEAN : BeginEnsure(1, tid, withName)
    \/ EnsureSteps(1)
    \/ \E id \in TenantIds : BeginDeleteTenant(1, id)
    \/ DeleteSteps(1)
    \/ \E tid \in TenantIds : BeginGetTenantDatabase(1, tid)
    \/ GetFind(1)
    \/ \E h \in handles : BeginHelper(1, h, Query("select", "placeholder", "invoices", 0, 0))
    \/ RunQuery(1)

SpecAdmin == InitAdmin /\ [][NextAdmin]_vars

\* The life of a tenant: creation, provisioning, queries through a
\* TenantDatabase instance that is kept, deletion.
NextLifecycle ==
    \/ BeginCreateTenant(1)
    \/ TenantCreate(1)
    \/ \E tid \in TenantIds, withName \in BOOLEAN : BeginEnsure(1, tid, withName)
    \/ EnsureSteps(1)
    \/ \E id \in TenantIds : BeginDeleteTenant(1, id)
    \/ DeleteSteps(1)
    \/ \E tid \in TenantIds : BeginGetTenantDatabase(1, tid)
    \/ GetFind(1)
    \/ \E h \in handles : BeginHelper(1, h, Query("select", "placeholder", "invoices", 0, 0))
    \/ RunQuery(1)

SpecLifecycle == InitAdmin /\ [][NextLifecycle]_vars

\* The helpers as statement builders: one data argument, every copy of
\* insertInTenantSchema and updateInTenantSchema applied to it.
InitCast ==
    /\ usedIds = {FirstTenant}
    /\ now = 1
    /\ clock = 0
    /\ handles = {}
    /\ faults = 0
    /\ registry = {TenantRecord(FirstTenant, 1, TRUE)}
    /\ schemata = {PublicSchema}
    /\ tables = {}
    /\ indexes = {}
    /\ rows = {}
    /\ \E d \in DataRecords :
            proc = [p \in Procs |-> IF p = 1 THEN [IdleProc EXCEPT !.data = d]
                                    ELSE IdleProc]

NextCast ==
    \/ \E version \in HelperVersions : BuildInsert(1, version)
    \/ \E version \in HelperVersions : BuildUpdate(1, version)

SpecCast == InitCast /\ [][NextCast]_vars

----------------------------------------------------------------------------
(* Properties of provisioning *)

TenantSchemata == schemata \ {PublicSchema}

EnsureDone(p) == proc[p].op = "ensure" /\ proc[p].pc = "done"

\* C7: ensureTenantSchema called twice in sequence for one tenant ends in the
\* state the first call left: one namespace with every required table, and
\* the second call returns the namespace name without an error.
EnsureTwiceIsIdempotent ==
    EnsureDone(1) =>
        /\ proc[1].status = "ok"
        /\ proc[1].ret = TenantRow(proc[1].tid).schemaName
        /\ TenantSchemata = {proc[1].ret}
        /\ Provisioned(proc[1].ret)
        /\ proc[1].calls = 2 => Snapshot = proc[1].snap

\* A second call has returned, after a first one that had to create the
\* namespace or some of its tables.
EnsureTwiceWitness ==
    /\ EnsureDone(1)
    /\ proc[1].calls = 2
    /\ proc[1].status = "ok"
    /\ Provisioned(proc[1].ret)
    /\ proc[1].issued = {}

\* C8: two interleaved ensureTenantSchema calls for a tenant without a
\* namespace both complete without error, leaving one namespace with every
\* required table.
ConcurrentEnsureSucceeds ==
    \A p \in Procs :
        EnsureDone(p) =>
            /\ proc[p].status = "ok"
            /\ TenantSchemata = {proc[p].ret}
            /\ Provisioned(proc[p].ret)

IssuedTables(p) == {st.table : st \in {x \in proc[p].issued : x.kind = "create_table"}}

\* Both calls took the creation path (both saw the namespace absent), sent
\* the same statements, and have returned.
ConcurrentEnsureWitness ==
    /\ \A p \in Procs : EnsureDone(p) /\ proc[p].status = "ok" /\ proc[p].calls = 1
    /\ \A p \in Procs : IssuedTables(p) = SeqToSet(RequiredTables)

\* The statements of the definitions of a set of tables.
StatementsOf(schemaName, tableSet) ==
    UNION {SeqToSet(TableStatements(TableDefinitions[i], schemaName)) :
            i \in {j \in 1..Len(TableDefinitions) : TableDefinitions[j].name \in tableSet}}

MissingAtBegin(p) ==
    SeqToSet(RequiredTables) \
        {x[2] : x \in {y \in proc[p].snap.tables : y[1] = proc[p].sn}}

\* C9: with the namespace present and required tables missing, the call
\* sends creation statements for the missing tables and their indexes only,
\* and ends with exactly those sent; what existed is unchanged.
HealCreatesOnlyMissing ==
    (proc[1].op = "ensure" /\ proc[1].sn \in proc[1].snap.schemata) =>
        /\ proc[1].issued \subseteq StatementsOf(proc[1].sn, MissingAtBegin(1))
        /\ proc[1].snap.tables \subseteq tables
        /\ proc[1].snap.indexes \subseteq indexes
        /\ rows = proc[1].snap.rows
        /\ schemata = proc[1].snap.schemata
        /\ EnsureDone(1) =>
            /\ proc[1].issued = StatementsOf(proc[1].sn, MissingAtBegin(1))
            /\ tables = proc[1].snap.tables \cup
                    {<<proc[1].sn, t>> : t \in MissingAtBegin(1)}

\* Exactly one required table was missing and the call has created it.
HealWitness ==
    /\ EnsureDone(1)
    /\ proc[1].sn \in proc[1].snap.schemata
    /\ MissingAtBegin(1) = {"tasks"}
    /\ IssuedTables(1) = {"tasks"}
    /\ <<proc[1].sn, "tasks">> \in tables

----------------------------------------------------------------------------
(* Properties of data access *)

ExecuteDone(p) == proc[p].op \in ExecuteOps /\ proc[p].pc = "done"

\* C1: no query run through one tenant's TenantDatabase returns a record that
\* was written through another tenant's, whatever the template and the table;
\* every record lies in the namespace registered for the tenant that wrote it.
NoCrossTenantRows ==
    /\ \A p \in Procs :
            proc[p].op \in ExecuteOps =>
                \A r \in proc[p].result : r.origin = proc[p].tid
    /\ \A r \in rows :
            HasTenant(r.origin) /\ r.schema = TenantRow(r.origin).schemaName

\* The second tenant's query, with the template and the table of the first
\* tenant's insert, returned its own record while the first tenant's exists.
CrossTenantWitness ==
    /\ ExecuteDone(1)
    /\ proc[1].tid = SecondTenant
    /\ proc[1].q = Query("select", "placeholder", "invoices", 0, 0)
    /\ proc[1].result # {}
    /\ \E r \in rows : r.origin = FirstTenant /\ r.table = "invoices" /\ r.is_active

\* C2: every statement on a required table that went to the database ran in
\* the namespace registered for the caller's tenant.
EveryStatementQualified ==
    \A p \in Procs :
        (proc[p].ran /\ proc[p].q.table \in SeqToSet(RequiredTables)) =>
            /\ HasTenant(proc[p].tid)
            /\ proc[p].target = TenantRow(proc[p].tid).schemaName

\* C4: the caller's query is sent only for a tenant that was registered and
\* active when the call began or when the call read the registry.
NeverRunsForDeadTenant ==
    \A p \in Procs :
        (proc[p].op \in ExecuteOps /\ proc[p].ran) =>
            (proc[p].liveAtBegin \/ proc[p].rowSeen = "active")

ResolveDone(p) ==
    proc[p].op \in {"getTenantDatabase", "getTenantSchema"} /\ proc[p].pc = "done"

\* C6: a resolution that succeeds returns the stored namespace, which matches
\* the pattern; for an unknown tenant it fails with not-found, for an inactive
\* one with inactive, and then returns no namespace.
ResolveFailsClosed ==
    \A p \in Procs :
        ResolveDone(p) =>
            /\ proc[p].status = "ok" =>
                    /\ proc[p].rowSeen = "active"
                    /\ proc[p].ret = TenantRow(proc[p].tid).schemaName
                    /\ IsValidSchemaName(proc[p].ret)
            /\ proc[p].rowSeen = "absent" =>
                    proc[p].status = "err" /\ proc[p].err = "not_found" /\ proc[p].ret = NoName
            /\ proc[p].rowSeen = "inactive" =>
                    proc[p].status = "err" /\ proc[p].err = "inactive" /\ proc[p].ret = NoName

----------------------------------------------------------------------------
(* Properties of tenant creation *)

CreateFailed(p) ==
    /\ proc[p].op \in {"createTenant", "adminCreate"}
    /\ proc[p].pc = "done"
    /\ proc[p].status = "err"

\* C10: when tenant creation reports a failure, the registry holds no row for
\* the tenant it had inserted and the namespace it had begun no longer exists.
FailedCreateLeavesNothing ==
    \A p \in Procs :
        CreateFailed(p) =>
            /\ \A r \in registry : r.schemaName # proc[p].sn /\ r.id # proc[p].tid
            /\ proc[p].sn \notin schemata

----------------------------------------------------------------------------
(* Properties of the request pipeline *)

NonAdmin(pr) == pr.user.present /\ pr.user.role \notin AdminRoles

Denied(pr) == pr.pc = "done" /\ pr.response.status = 403 /\ ~pr.entered

GateAttachesGateway ==
    \A p \in Procs :
        (NonAdmin(proc[p]) /\ "validateTenantAccess" \in proc[p].passed) =>
            /\ proc[p].reqTenantDB # NoHandle
            /\ proc[p].reqTenantDB.tenantId = proc[p].user.tenantId
            /\ \E r \in registry :
                    /\ r.id = proc[p].user.tenantId
                    /\ r.schemaName = proc[p].reqTenantDB.schemaName

----------------------------------------------------------------------------
(* Properties of provisioning after a failure *)

PartialAt(snapshot, schemaName) ==
    /\ schemaName \in snapshot.schemata
    /\ \E t \in SeqToSet(RequiredTables) : <<schemaName, t>> \in snapshot.tables
    /\ \E t \in SeqToSet(RequiredTables) : <<schemaName, t>> \notin snapshot.tables

\* C11: an ensureTenantSchema call that meets no database failure completes
\* without error with every required table present, also when it starts from
\* the namespace and the tables an earlier, failed call left; what that call
\* had created is still there.
RetryAfterFailureCompletes ==
    (EnsureDone(1) /\ ~proc[1].faulted) =>
        /\ proc[1].status = "ok"
        /\ Provisioned(proc[1].ret)
        /\ proc[1].snap.schemata \subseteq schemata
        /\ proc[1].snap.tables \subseteq tables
        /\ proc[1].snap.indexes \subseteq indexes

\* A call has completed that began with the namespace and some of the
\* required tables, left by a call that a database failure had interrupted.
RetryAfterFailureWitness ==
    /\ EnsureDone(1)
    /\ ~proc[1].faulted
    /\ proc[1].status = "ok"
    /\ faults > 0
    /\ PartialAt(proc[1].snap, proc[1].sn)
    /\ Provisioned(proc[1].sn)

----------------------------------------------------------------------------
(* Properties of namespace names *)

\* The pattern ^[a-zA-Z0-9_]+$ over the characters names are made of here:
\* the hyphen is the one that is outside it.
SafeIdentifier(name) ==
    /\ name # <<>>
    /\ \A i \in 1..Len(name) : name[i] # "-"

NewlyIssued(p) == proc'[p].issued \ proc[p].issued

Interpolates(pr) ==
    \/ \E st \in pr.issued : st.kind # "drop_schema"
    \/ pr.ran /\ pr.q.qual = "placeholder"

----------------------------------------------------------------------------
(* Provisioning before every query *)

SecondCallSendsNoDdl ==
    \A p \in Procs :
        (proc[p].op \in ExecuteOps /\ proc[p].calls = 2 /\ proc[p].ran) =>
            /\ proc[p].issued = {}
            /\ proc[p].q.kind # "create_table"

----------------------------------------------------------------------------
(* Properties of the gate's bypass and of its denials *)

\* C17: for a principal whose role is admin or super_admin,
\* validateTenantAccess calls next() and reads no registry row, whatever the
\* principal's tenant id is and whether that tenant exists or is active.
AdminBypassesGate ==
    \A p \in Procs :
        (proc[p].op = "validateTenantAccess" /\ proc[p].user.present
            /\ proc[p].user.role \in {"admin", "super_admin"}) =>
                /\ "validateTenantAccess" \in proc[p].passed
                /\ proc[p].gateSeen = "none"
                /\ proc[p].pc # "va_tenants"
                /\ proc[p].response.status # 403

\* validateTenantAccess has called next() for a super_admin whose tenant id
\* is the id of a deactivated tenant.
AdminBypassWitness ==
    /\ proc[1].op = "validateTenantAccess"
    /\ proc[1].user.role = "super_admin"
    /\ "validateTenantAccess" \in proc[1].passed
    /\ proc[1].gateSeen = "none"
    /\ RowState(proc[1].user.tenantId) = "inactive"

\* The principal of a call: what the token decoded to, or req.user.
Principal(pr) == IF pr.op = "request" THEN pr.decoded ELSE pr.user

NoTenantPrincipal(pr) ==
    /\ pr.op \in {"request", "validateTenantAccess"}
    /\ Principal(pr).present
    /\ Principal(pr).role \notin {"admin", "super_admin"}
    /\ Principal(pr).tenantId = NoName

\* C18 as stated: a principal that is not an admin and has no tenant id is
\* answered 403 by the first gate it meets, authenticateToken or
\* validateTenantAccess, which does not call next(); no registry row is
\* read and no controller runs.
NoTenantPrincipalStoppedAtGate ==
    \A p \in Procs :
        NoTenantPrincipal(proc[p]) =>
            /\ proc[p].pc = "done"
            /\ proc[p].response.status = 403
            /\ proc[p].passed = {}
            /\ proc[p].rowSeen = "none" /\ proc[p].gateSeen = "none"
            /\ ~proc[p].entered

\* C18, amended: such a principal is always answered 403 with no registry
\* read and no controller run; validateTenantAccess does not call next() for
\* it, and authenticateToken does not when the token has no role at all. For
\* a token with a role, authenticateToken calls next() and tenantMiddleware
\* is the one that answers 403.
NoTenantPrincipalRejected ==
    \A p \in Procs :
        NoTenantPrincipal(proc[p]) =>
            /\ proc[p].pc = "done"
            /\ proc[p].response.status = 403
            /\ proc[p].responses = 1
            /\ proc[p].rowSeen = "none" /\ proc[p].gateSeen = "none"
            /\ ~proc[p].entered
            /\ proc[p].passed \subseteq {"authenticateToken"}
            /\ Principal(proc[p]).role = "" => proc[p].passed = {}

\* A token with the role user and no tenant id went through
\* authenticateToken and was answered 403 by tenantMiddleware.
RoleWithoutTenantWitness ==
    /\ proc[1].op = "request"
    /\ NoTenantPrincipal(proc[1])
    /\ proc[1].decoded.role = "user"
    /\ proc[1].passed = {"authenticateToken"}
    /\ proc[1].response = [status |-> 403, error |-> "Tenant not identified"]

\* C19: the answer of a gate that denies a tenant is the same, in status and
\* in body, whether the tenant is missing or inactive: the answer a request
\* got is the answer the gate gives in the other case as well.
DenialsAreIndistinguishable ==
    \A p \in Procs :
        LET pr == proc[p]
        IN  /\ (pr.pc = "done" /\ pr.gateSeen \in {"absent", "inactive"}) =>
                    \A verdict \in {"not_found", "inactive"} :
                        pr.response = GateDenial(verdict)
            /\ (pr.pc = "done" /\ pr.rowSeen \in {"absent", "inactive"}) =>
                    \A verdict \in {"not_found", "inactive"} :
                        pr.response = TokenDenial(verdict)

----------------------------------------------------------------------------
(* Properties of the record helpers *)

\* C20: updateInTenantSchema with an id that no record of the table has, or
\* that only a record with is_active = FALSE has, returns nothing, does not
\* throw and changes no record.
UpdateOfMissingRowChangesNothing ==
    [][\A p \in Procs :
        (/\ proc[p].op = "updateInTenantSchema"
         /\ proc[p].pc = "x_query"
         /\ proc'[p].ran
         /\ ~\E r \in rows : /\ r.schema = proc'[p].target
                             /\ r.table = proc[p].q.table
                             /\ r.id = proc[p].q.id
                             /\ r.is_active) =>
            /\ proc'[p].status = "ok"
            /\ proc'[p].result = {}
            /\ rows' = rows]_vars

\* The active records a helper call of process p addresses, as the step that
\* sends its statement finds them.
ActiveAddressed(p) ==
    {r \in rows : /\ r.schema = proc'[p].target
                  /\ r.table = proc[p].q.table
                  /\ r.id = proc[p].q.id
                  /\ r.is_active}

\* C21: softDeleteInTenantSchema on the id of an active record sets its
\* is_active to FALSE, refreshes its updated_at and returns it; on an id with
\* no active record it returns nothing and changes nothing. No helper call
\* removes a record.
SoftDeleteKeepsRows ==
    [][\A p \in Procs :
        (proc[p].op \in ExecuteOps /\ proc[p].pc = "x_query" /\ proc'[p].ran) =>
            /\ \A r \in rows : \E r2 \in rows' :
                    r2.schema = r.schema /\ r2.table = r.table /\ r2.id = r.id
            /\ proc[p].op = "softDeleteInTenantSchema" =>
                    /\ proc'[p].status = "ok"
                    /\ proc'[p].result =
                            {[r EXCEPT !.is_active = FALSE, !.updated_at = clock + 1] :
                                r \in ActiveAddressed(p)}
                    /\ rows' = (rows \ ActiveAddressed(p)) \cup proc'[p].result]_vars

\* The columns an updateInTenantSchema call supplies.
SuppliedColumns(q) == IF q.kind = "updateNone" THEN {} ELSE {"val"}

\* C22: updateInTenantSchema on the id of an active record sets the supplied
\* columns and updated_at of that record, for an empty set of columns as
\* well, and changes nothing else: no other column, no other record, no other
\* table, no other tenant's data.
UpdateSetsSuppliedColumnsOnly ==
    [][\A p \in Procs :
        (/\ proc[p].op = "updateInTenantSchema"
         /\ proc[p].pc = "x_query"
         /\ proc'[p].ran
         /\ ActiveAddressed(p) # {}) =>
            /\ proc'[p].status = "ok"
            /\ rows' = (rows \ ActiveAddressed(p)) \cup
                    {[r EXCEPT !.updated_at = clock + 1,
                               !.val = IF "val" \in SuppliedColumns(proc[p].q)
                                       THEN proc[p].q.val ELSE r.val] :
                        r \in ActiveAddressed(p)}]_vars

----------------------------------------------------------------------------
(* Properties of the statements the helpers build *)

InsertBuilt(p) == proc[p].op = "insertInTenantSchema" /\ proc[p].built # NoBuilt

UpdateBuilt(p) == proc[p].op = "updateInTenantSchema" /\ proc[p].built # NoBuilt

\* The shape of the value supplied for a column of the data argument.
ShapeOf(data, col) == data[CHOOSE i \in 1..Len(data) : data[i].col = col].shape

\* The cast the inference rule prescribes.
PrescribedCast(col, shape) ==
    IF col = "tags" /\ shape = "array" THEN "jsonb"
    ELSE IF col = "due_date" THEN "date"
    ELSE IF shape = "uuid" THEN "uuid"
    ELSE "none"

\* C23: every placeholder of the statement insertInTenantSchema builds has
\* the cast of the rule: jsonb for tags holding an array, date for a column
\* with a date name, uuid for a value in the identifier form, none otherwise.
InsertCastsFollowRule ==
    \A p \in Procs :
        InsertBuilt(p) =>
            \A i \in 1..Len(proc[p].built.columns) :
                LET col == proc[p].built.columns[i]
                    shape == ShapeOf(proc[p].data, col)
                IN  (col # "tags" \/ shape = "array") =>
                        proc[p].built.placeholders[i].cast = PrescribedCast(col, shape)

\* C24: for every column and value, updateInTenantSchema puts the cast on
\* the column's placeholder that insertInTenantSchema of the same copy of
\* the helpers puts on it.
UpdateInfersInsertCast ==
    \A p \in Procs :
        UpdateBuilt(p) =>
            \A i \in 1..Len(proc[p].built.columns) :
                LET col == proc[p].built.columns[i]
                IN  proc[p].built.placeholders[i].cast =
                        InsertCast(proc[p].version, col, ShapeOf(proc[p].data, col))

\* C30: in the statements insertInTenantSchema and updateInTenantSchema
\* build, the number of each column's placeholder is the position of that
\* column's value in the parameter list, also when an insert drops null
\* values, and the number in the WHERE id condition is the position of the id.
PlaceholdersMatchParameters ==
    \A p \in Procs :
        (InsertBuilt(p) \/ UpdateBuilt(p)) =>
            LET b == proc[p].built
            IN  /\ Len(b.placeholders) = Len(b.columns)
                /\ \A i \in 1..Len(b.columns) :
                        /\ b.placeholders[i].n \in 1..Len(b.values)
                        /\ b.values[b.placeholders[i].n] = b.columns[i]
                /\ UpdateBuilt(p) =>
                        /\ b.where.n \in 1..Len(b.values)
                        /\ b.values[b.where.n] = "id"
                        /\ Len(b.values) = Len(b.columns) + 1
                /\ InsertBuilt(p) => Len(b.values) = Len(b.columns)

\* An insert dropped a null value that came before a kept column: the kept
\* column has the placeholder $1 and its value is the first parameter.
RenumberedWitness ==
    /\ InsertBuilt(1)
    /\ proc[1].version = "byName"
    /\ Len(proc[1].data) = 2
    /\ proc[1].data[1].shape = "null"
    /\ proc[1].data[2].shape # "null"
    /\ proc[1].built.columns = <<proc[1].data[2].col>>
    /\ proc[1].built.placeholders[1].n = 1
    /\ proc[1].built.values = <<proc[1].data[2].col>>

----------------------------------------------------------------------------
(* Properties of namespaces against the registry *)

\* C25: every tenant namespace in the database is the namespace of a row of
\* the registry: none is created again after deleteTenant dropped it, none
\* outlives its row.
EveryNamespaceHasRow ==
    \A sn \in schemata \ {PublicSchema} : \E r \in registry : r.schemaName = sn

----------------------------------------------------------------------------
(* Properties of the route chain *)

\* C26: behind authenticateToken and tenantMiddleware, with or without
\* validateTenantAccess, a request enters the controller only if its token
\* carries a tenant id that this request found active in the registry; a
\* token that carries a role never enters.
ControllerNeedsVerifiedTenant ==
    \A p \in Procs :
        (proc[p].op = "request" /\ proc[p].entered) =>
            /\ proc[p].decoded.present
            /\ proc[p].decoded.tenantId # NoName
            /\ proc[p].decoded.role = ""
            /\ proc[p].rowSeen = "active"
            /\ proc[p].reqTenant = proc[p].decoded.tenantId
            /\ {"authenticateToken", "tenantMiddleware"} \subseteq proc[p].passed

\* A request of the tasks router, which has no validateTenantAccess, entered
\* the controller for a tenant authenticateToken found active.
VerifiedTenantEnters ==
    /\ proc[1].op = "request"
    /\ proc[1].route = "tasks"
    /\ proc[1].entered
    /\ proc[1].rowSeen = "active"
    /\ proc[1].reqTenant = FirstTenant

\* The error bodies each gate sends.
TokenErrors ==
    {"Access token required", "Invalid or expired token",
     "Invalid token: missing tenant information", "Invalid tenant",
     "Tenant is inactive"}

GateErrors ==
    {"Authentication required", "Access denied: Invalid user tenant association",
     "Access denied: Tenant not found", "Access denied: Tenant is inactive",
     "Internal server error during tenant validation"}

\* The middleware has answered the request itself.
Answered(pr, errors) ==
    pr.response.status # 0 /\ ~pr.entered /\ pr.response.error \in errors

\* C27: an invocation of validateTenantAccess or of authenticateToken that
\* has ended either called next() once and sent nothing, or sent one error
\* response and did not call next(); also when getAllTenants throws.
GateEndsInOneOutcome ==
    \A p \in Procs :
        LET pr == proc[p]
        IN  pr.pc = "done" =>
                /\ pr.nexts = Cardinality(pr.passed)
                /\ pr.op = "validateTenantAccess" =>
                        /\ ("validateTenantAccess" \in pr.passed) # Answered(pr, GateErrors)
                        /\ Answered(pr, GateErrors) => pr.responses = 1
                /\ pr.op = "request" =>
                        /\ ("authenticateToken" \in pr.passed) # Answered(pr, TokenErrors)
                        /\ Answered(pr, TokenErrors) => pr.responses = 1
                /\ (pr.op = "request" /\ HasValidateTenantAccess(pr.route)
                        /\ "tenantMiddleware" \in pr.passed) =>
                        ("validateTenantAccess" \in pr.passed) # Answered(pr, GateErrors)
                /\ pr.op \in {"request", "validateTenantAccess"} => pr.responses <= 1

\* getAllTenants threw inside validateTenantAccess: one response, 500, and
\* next() was not called.
LookupThrewWitness ==
    /\ proc[1].op = "validateTenantAccess"
    /\ proc[1].pc = "done"
    /\ proc[1].faulted
    /\ proc[1].response.status = 500
    /\ proc[1].responses = 1
    /\ proc[1].nexts = 0

\* C28: for every tenant of the registry, the name getSchemaName derives
\* from the tenant id is the name createTenant stored in the row.
DerivedNameIsStoredName ==
    \A r \in registry : DerivedSchemaName(r.id) = r.schemaName

\* C29: after an ensureTenantSchema call that returned without error, also
\* one that follows a call which failed between a CREATE TABLE and that
\* table's CREATE INDEX statements, every required table of the namespace has
\* every index of its definition.
SuccessfulEnsureLeavesAllIndexes ==
    \A p \in Procs :
        (EnsureDone(p) /\ proc[p].status = "ok") =>
            AllIndexesOf(proc[p].ret, SeqToSet(RequiredTables)) \subseteq indexes

====
